---------------------------- MODULE Spec2Model ----------------------------
(***************************************************************************)
(* Crawler PDF V2 (src/app.py): the shared CrawlerPDFV2 instance           *)
(* `crawler_v2`, the worker threads that POST /process_v2 spawns to run    *)
(* CrawlerPDFV2.process_files_v2, the POST /cancel handler and the content *)
(* cache.  A step of a thread is one statement that reads or writes a      *)
(* field of the shared object, together with the statements on locals that *)
(* follow it, so the interleavings of the model are the interleavings of   *)
(* the threads.  GET /progress_v2 and GET /download only read the object.  *)
(*                                                                         *)
(* The matcher and the document analyzer are pure functions of strings;    *)
(* MatcherSpec and AnalyzerSpec call them on inputs drawn from bounded     *)
(* sets.                                                                   *)
(***************************************************************************)
EXTENDS Integers, Sequences, FiniteSets, TLC

(***************************************************************************)
(* Bounds of the model.                                                    *)
(***************************************************************************)
MaxRuns == 2        \* POST /process_v2 requests served in one process life
MaxNames == 2       \* rows of the uploaded name list
MaxCancels == 1     \* POST /cancel requests served in one process life

Workers == 1..MaxRuns

(***************************************************************************)
(* Strings.  A Python str is the sequence of its characters; the accented  *)
(* letters of the source are written without the accent.                   *)
(***************************************************************************)
UpperCase ==
    <<"A", "B", "C", "D", "E", "F", "G", "H", "I", "J", "K", "L", "M",
      "N", "O", "P", "Q", "R", "S", "T", "U", "V", "W", "X", "Y", "Z">>

LowerCase ==
    <<"a", "b", "c", "d", "e", "f", "g", "h", "i", "j", "k", "l", "m",
      "n", "o", "p", "q", "r", "s", "t", "u", "v", "w", "x", "y", "z">>

Digits == {"0", "1", "2", "3", "4", "5", "6", "7", "8", "9"}

\* the characters the regular expression class \s matches
Whitespace == {" ", "\n", "\t"}

\* the characters the regular expression class \w matches
WordChars ==
    {UpperCase[k] : k \in DOMAIN UpperCase}
        \cup {LowerCase[k] : k \in DOMAIN LowerCase} \cup Digits \cup {"_"}

Max(x, y) == IF x >= y THEN x ELSE y

\* a min() that takes the larger of the two
min_takes_larger(x, y) == IF x >= y THEN x ELSE y

Min(x, y) == IF x <= y THEN x ELSE y

\* a local variable: the value of F(x) for x the value of v, v computed once
With(v, F(_)) == CHOOSE r \in {F(x) : x \in {v}} : TRUE

\* a lower() that leaves every letter as it is
lower_keeps_case(s) == s

\* str.lower()
lower(s) ==
    [i \in 1..Len(s) |->
        IF \E k \in DOMAIN UpperCase : UpperCase[k] = s[i]
        THEN LowerCase[CHOOSE k \in DOMAIN UpperCase : UpperCase[k] = s[i]]
        ELSE s[i]]

\* 'sub in s'
Contains(s, sub) ==
    \E i \in 0..(Len(s) - Len(sub)) : \A k \in 1..Len(sub) : s[i + k] = sub[k]

\* s.find(sub): the lowest index (from 0) where sub starts in s, or -1
find(s, sub) ==
    LET hits == {i \in 0..(Len(s) - Len(sub)) :
                    \A k \in 1..Len(sub) : s[i + k] = sub[k]}
    IN  IF hits = {} THEN -1 ELSE CHOOSE i \in hits : \A j \in hits : i <= j

\* the slice s[start:end], indices from 0, for 0 <= start
slice(s, start, end) == SubSeq(s, start + 1, Min(end, Len(s)))

\* s.strip()
strip(s) ==
    LET keep == {i \in 1..Len(s) : s[i] \notin Whitespace}
    IN  IF keep = {} THEN <<>>
        ELSE SubSeq(s, CHOOSE i \in keep : \A j \in keep : i <= j,
                       CHOOSE i \in keep : \A j \in keep : i >= j)

\* the last position e >= from - 1 such that s[from..e] lies within chars
RunEnd(s, from, chars) ==
    CHOOSE e \in (from - 1)..Len(s) :
        /\ \A k \in from..e : s[k] \in chars
        /\ e = Len(s) \/ s[e + 1] \notin chars

\* re.findall(r'\w+', s): the maximal runs of word characters, in order
findall_words(s) ==
    LET starts == {i \in 1..Len(s) :
                      s[i] \in WordChars /\ (i = 1 \/ s[i - 1] \notin WordChars)}
        nth(n) == CHOOSE i \in starts : Cardinality({j \in starts : j < i}) = n - 1
    IN  [n \in 1..Cardinality(starts) |->
            SubSeq(s, nth(n), RunEnd(s, nth(n), WordChars))]

(***************************************************************************)
(* Inputs of a request.                                                    *)
(***************************************************************************)
\* the name in row i of an uploaded list
NameAt(i) == IF i % 2 = 1 THEN <<"a">> ELSE <<"b">>

Unreadable == <<"#unreadable">>

\* an empty list, and a list of MaxNames names
NameLists == {<<>>, [i \in 1..MaxNames |-> NameAt(i)]}

\* what pd.read_excel finds in the upload: a workbook whose first column
\* holds the names, or a file pandas cannot open
ExcelFiles == NameLists \cup {Unreadable}

Thresholds == {80}

\* content hashes of the uploaded PDFs (CacheManager.get_file_hash)
Hashes == {"h1", "h2"}

PageSep == <<"\n", "\n">>

\* the page texts PyPDF2 extracts from the document with the given hash;
\* Unreadable: page.extract_text() raises on the page
PagesOf(h) ==
    CASE h = "h1" -> << <<"a", " ", "q", "g", "c">> >>
      [] h = "h2" -> << <<"b">>, Unreadable >>

\* the uploads and the tolerance of a POST /process_v2.  A run that stops at
\* the name list never opens its PDF: those requests come with one PDF only.
Requests ==
    {r \in [excel : ExcelFiles, pdf : Hashes, threshold : Thresholds] :
        r.excel \in {Unreadable, <<>>} => r.pdf = "h1"}

(***************************************************************************)
(* QGCAnalyzer                                                             *)
(***************************************************************************)
qgc_indicators ==
    {<<"q", "u", "a", "d", "r", "o", " ", "g", "e", "r", "a", "l", " ",
         "d", "e", " ", "c", "r", "e", "d", "o", "r", "e", "s">>,
     <<"q", "g", "c">>,
     <<"r", "e", "l", "a", "c", "a", "o", " ", "d", "e", " ", "c", "r",
         "e", "d", "o", "r", "e", "s">>,
     <<"c", "r", "e", "d", "o", "r", "e", "s", " ", "q", "u", "i", "r",
         "o", "g", "r", "a", "f", "a", "r", "i", "o", "s">>,
     <<"c", "r", "e", "d", "o", "r", "e", "s", " ", "t", "r", "a", "b",
         "a", "l", "h", "i", "s", "t", "a", "s">>,
     <<"c", "r", "e", "d", "o", "r", "e", "s", " ", "c", "o", "m", " ",
         "g", "a", "r", "a", "n", "t", "i", "a", " ", "r", "e", "a", "l">>,
     <<"a", "d", "m", "i", "n", "i", "s", "t", "r", "a", "d", "o", "r",
         " ", "j", "u", "d", "i", "c", "i", "a", "l">>}

\* the characters of the class [\d.,]
AmountChars == Digits \cup {".", ","}

\* value_pattern, R\$\s*([\d.,]+(?:\.\d{2})?), tried at position i of s: the
\* greedy class takes every amount character, so the optional group is
\* empty.  The positions of group 1, or none.
value_match(s, i) ==
    LET j == RunEnd(s, i + 2, Whitespace) + 1
        e == RunEnd(s, j, AmountChars)
    IN  IF /\ i + 1 <= Len(s) /\ s[i] = "R" /\ s[i + 1] = "$"
           /\ e >= j
        THEN [matched |-> TRUE, from |-> j, to |-> e]
        ELSE [matched |-> FALSE, from |-> 0, to |-> 0]

\* re.findall(value_pattern, s): group 1 of the matches, left to right
findall_values(s) ==
    LET f[i \in 1..(Len(s) + 1)] ==
            IF i > Len(s) THEN <<>>
            ELSE IF value_match(s, i).matched
                 THEN <<SubSeq(s, value_match(s, i).from, value_match(s, i).to)>>
                          \o f[value_match(s, i).to + 1]
                 ELSE f[i + 1]
    IN  f[1]

\* n digits at positions p .. p+n-1 of s
DigitsAt(s, p, n) ==
    p + n - 1 <= Len(s) /\ \A k \in 0..(n - 1) : s[p + k] \in Digits

\* an optional character c at position p: the position after it
Optional(s, p, c) == IF p <= Len(s) /\ s[p] = c THEN p + 1 ELSE p

\* cnpj_pattern, \d{2}\.?\d{3}\.?\d{3}\/?\d{4}-?\d{2}, tried at position i
\* of s: the position of the last character of the match, or 0
cnpj_match(s, i) ==
    LET p1 == IF DigitsAt(s, i, 2) THEN Optional(s, i + 2, ".") ELSE 0
        p2 == IF p1 # 0 /\ DigitsAt(s, p1, 3) THEN Optional(s, p1 + 3, ".") ELSE 0
        p3 == IF p2 # 0 /\ DigitsAt(s, p2, 3) THEN Optional(s, p2 + 3, "/") ELSE 0
        p4 == IF p3 # 0 /\ DigitsAt(s, p3, 4) THEN Optional(s, p3 + 4, "-") ELSE 0
    IN  IF p4 # 0 /\ DigitsAt(s, p4, 2) THEN p4 + 1 ELSE 0

\* re.findall(cnpj_pattern, s): the matches, left to right
findall_cnpjs(s) ==
    LET f[i \in 1..(Len(s) + 1)] ==
            IF i > Len(s) THEN <<>>
            ELSE IF cnpj_match(s, i) # 0
                 THEN <<SubSeq(s, i, cnpj_match(s, i))>> \o f[cnpj_match(s, i) + 1]
                 ELSE f[i + 1]
    IN  f[1]

detect_document_type(text) ==
    LET text_lower == lower(text)
        qgc_score == Cardinality({indicator \in qgc_indicators :
                                     Contains(text_lower, indicator)})
    IN  IF qgc_score >= 2
        THEN [type |-> "qgc",
              confidence |-> Min(90, qgc_score * 30),
              values_found |-> Len(findall_values(text)),
              cnpjs_found |-> Len(findall_cnpjs(text))]
        ELSE [type |-> "unknown", confidence |-> 0,
              values_found |-> 0, cnpjs_found |-> 0]

(***************************************************************************)
(* Status messages and match types: a tag and the two numbers the text is  *)
(* formatted with.                                                         *)
(***************************************************************************)
Msg(tag, x, y) == [tag |-> tag, x |-> x, y |-> y]

MsgReady == Msg("Pronto para processar", 0, 0)
MsgCancelled == Msg("Processamento cancelado", 0, 0)

(***************************************************************************)
(* A dict is the set of its items <<key, value>>.                          *)
(***************************************************************************)
EmptyDict == {}

\* d.get(key, default)
dict_get(d, key, default) ==
    IF \E item \in d : item[1] = key
    THEN (CHOOSE item \in d : item[1] = key)[2]
    ELSE default

(***************************************************************************)
(* difflib.SequenceMatcher(None, a, b), which fuzz.partial_ratio is built  *)
(* on when python-Levenshtein is not installed.  Indices count from 0 as   *)
(* in the library.  No element is junk: isjunk is None, and the popularity *)
(* heuristic needs a sequence of 200 elements at least.                    *)
(***************************************************************************)
\* the length of the common run of a and b that starts at a[i], b[j], where
\* a[i] = b[j], inside a[:ahi] and b[:bhi]
run_length(a, b, i, j, ahi, bhi) ==
    CHOOSE k \in 1..Min(ahi - i, bhi - j) :
        /\ k = Min(ahi - i, bhi - j) \/ a[i + k + 1] # b[j + k + 1]
        /\ \A t \in 1..k : a[i + t] = b[j + t]

\* find_longest_match: <<i, j, k>> with a[i:i+k] = b[j:j+k] inside
\* a[alo:ahi] and b[blo:bhi], k the largest there is, then i the smallest,
\* then j the smallest
find_longest_match(a, b, alo, ahi, blo, bhi) ==
    With({<<p[1], p[2], run_length(a, b, p[1], p[2], ahi, bhi)>> :
             p \in {q \in (alo..(ahi - 1)) \X (blo..(bhi - 1)) :
                       a[q[1] + 1] = b[q[2] + 1]}},
         LAMBDA runs :
            IF runs = {} THEN <<alo, blo, 0>>
            ELSE CHOOSE x \in runs : \A y \in runs :
                    \/ x[3] > y[3]
                    \/ x[3] = y[3] /\ x[1] < y[1]
                    \/ x[3] = y[3] /\ x[1] = y[1] /\ x[2] <= y[2])

\* get_matching_blocks: the blocks found inside a[alo:ahi] and b[blo:bhi] for
\* every <<alo, ahi, blo, bhi>> the queue holds, sorted, then the
\* terminating block of size 0
get_matching_blocks(a, b) ==
    LET blocks[q \in (0..Len(a)) \X (0..Len(a)) \X (0..Len(b)) \X (0..Len(b))] ==
            With(find_longest_match(a, b, q[1], q[2], q[3], q[4]),
                 LAMBDA x :
                    IF x[3] = 0 THEN <<>>
                    ELSE (IF q[1] < x[1] /\ q[3] < x[2]
                          THEN blocks[<<q[1], x[1], q[3], x[2]>>] ELSE <<>>)
                         \o <<x>>
                         \o (IF x[1] + x[3] < q[2] /\ x[2] + x[3] < q[4]
                             THEN blocks[<<x[1] + x[3], q[2], x[2] + x[3], q[4]>>]
                             ELSE <<>>))
    IN  blocks[<<0, Len(a), 0, Len(b)>>] \o << <<Len(a), Len(b), 0>> >>

\* ratio() = 2.0 * matches / (len(a) + len(b)), as the fraction <<num, den>>
ratio(a, b) ==
    With(get_matching_blocks(a, b),
         LAMBDA blocks :
            LET sum[n \in 0..Len(blocks)] ==
                    IF n = 0 THEN 0 ELSE sum[n - 1] + blocks[n][3]
            IN  IF Len(a) + Len(b) = 0 THEN <<1, 1>>
                ELSE <<2 * sum[Len(blocks)], Len(a) + Len(b)>>)

(***************************************************************************)
(* fuzzywuzzy                                                              *)
(***************************************************************************)
\* utils.intr(100 * r) = int(round(100 * r)) for the fraction r; round()
\* takes a half to the even neighbour.  For den < 80 (names shorter than 40
\* characters) the float product rounds as the exact value does.
intr100(r) ==
    LET q == (100 * r[1]) \div r[2]
        rest == (100 * r[1]) % r[2]
    IN  IF 2 * rest > r[2] \/ (2 * rest = r[2] /\ q % 2 = 1) THEN q + 1 ELSE q

\* fuzz.partial_ratio, with its decorators check_for_equivalence and
\* check_empty_string
partial_ratio(s1, s2) ==
    LET shorter == IF Len(s1) <= Len(s2) THEN s1 ELSE s2
        longer == IF Len(s1) <= Len(s2) THEN s2 ELSE s1
        score(block) ==
            LET long_start == Max(block[2] - block[1], 0)
                long_end == long_start + Len(shorter)
            IN  ratio(shorter, slice(longer, long_start, long_end))
    IN  IF s1 = s2 THEN 100
        ELSE IF Len(s1) = 0 \/ Len(s2) = 0 THEN 0
        ELSE With({score(block) :
                      block \in With(get_matching_blocks(shorter, longer),
                                     LAMBDA blocks :
                                        {blocks[n] : n \in 1..Len(blocks)})},
                  LAMBDA scores :
                     IF \E r \in scores : 1000 * r[1] > 995 * r[2]
                     THEN 100
                     ELSE intr100(CHOOSE r \in scores : \A q \in scores :
                                     r[1] * q[2] >= q[1] * r[2]))

(***************************************************************************)
(* AdvancedMatcher                                                         *)
(***************************************************************************)
common_words ==
    {<<"l", "t", "d", "a">>,
     <<"s", "a">>,
     <<"c", "i", "a">>,
     <<"i", "n", "c">>,
     <<"c", "o", "r", "p">>,
     <<"l", "i", "m", "i", "t", "e", "d">>,
     <<"t", "e", "c", "h">>,
     <<"g", "r", "o", "u", "p">>,
     <<"i", "n", "t", "e", "r", "n", "a", "t", "i", "o", "n", "a", "l">>,
     <<"b", "r", "a", "s", "i", "l">>,
     <<"b", "r", "a", "z", "i", "l">>,
     <<"c", "o", "m", "p", "a", "n", "y">>,
     <<"s", "o", "l", "u", "t", "i", "o", "n", "s">>,
     <<"s", "e", "r", "v", "i", "c", "e", "s">>,
     <<"i", "n", "d", "u", "s", "t", "r", "i", "a">>,
     <<"c", "o", "m", "e", "r", "c", "i", "o">>,
     <<"g", "l", "o", "b", "a", "l">>,
     <<"n", "a", "c", "i", "o", "n", "a", "l">>}

\* _extract_context(search_term, text, size)
extract_context(search_term, text, size) ==
    LET index == find(lower(text), lower(search_term))
        start == Max(0, index - size \div 2)
        end == Min(Len(text), index + Len(search_term) + size \div 2)
    IN  IF index # -1 THEN strip(slice(text, start, end)) ELSE <<>>

\* _extract_client_data(client_name, text)
extract_client_data(client_name, text) ==
    LET context == extract_context(client_name, text, 400)
        values == findall_values(context)
        cnpjs == findall_cnpjs(context)
    IN  {<<"values", SubSeq(values, 1, Min(3, Len(values)))>>,
         <<"cnpjs", SubSeq(cnpjs, 1, Min(2, Len(cnpjs)))>>}

\* the significant words of a name: three characters at least, not common
significant_words(client_name) ==
    SelectSeq(findall_words(lower(client_name)),
              LAMBDA word : Len(word) >= 3 /\ word \notin common_words)

\* a test of the word search that one word found satisfies
word_gate_one_word(found_words, significant) ==
    /\ Len(significant) > 0
    /\ Len(found_words) >= 1
    /\ 10 * Len(found_words) >= 8 * Len(significant)

\* the test of the search by significant words
word_gate(found_words, significant) ==
    /\ Len(significant) > 0
    /\ Len(found_words) >= 2
    /\ 10 * Len(found_words) >= 8 * Len(significant)

\* a test of the fuzzy search that a similarity at the minimum fails
fuzzy_gate_strict(similarity, threshold) == similarity > Max(threshold, 88)

\* the test of the fuzzy search
fuzzy_gate(similarity, threshold) == similarity >= Max(threshold, 88)

advanced_search(client_name, text, threshold) ==
    With(<<lower(client_name), lower(text)>>,
         LAMBDA low :
            LET significant == significant_words(client_name)
                found_words ==
                    SelectSeq(significant, LAMBDA word : Contains(low[2], word))
            IN  IF Contains(low[2], low[1])
                THEN [found |-> TRUE,
                      confidence |-> 95,
                      match_type |-> Msg("Exata", 0, 0),
                      context |-> extract_context(client_name, text, 200),
                      extracted_data |-> extract_client_data(client_name, text)]
                ELSE IF word_gate(found_words, significant)
                THEN [found |-> TRUE,
                      confidence |-> (Len(found_words) * 90) \div Len(significant),
                      match_type |->
                          Msg("Palavras", Len(found_words), Len(significant)),
                      context |-> extract_context(found_words[1], text, 200),
                      extracted_data |-> extract_client_data(client_name, text)]
                ELSE With(partial_ratio(low[1], low[2]),
                          LAMBDA similarity :
                             IF fuzzy_gate(similarity, threshold)
                             THEN [found |-> TRUE,
                                   confidence |-> similarity,
                                   match_type |-> Msg("Fuzzy", similarity, 0),
                                   context |-> extract_context(client_name, text, 200),
                                   extracted_data |->
                                       extract_client_data(client_name, text)]
                             ELSE [found |-> FALSE,
                                   confidence |-> similarity,
                                   match_type |-> Msg("Nao encontrado", 0, 0),
                                   context |-> <<>>,
                                   extracted_data |-> EmptyDict]))

\* sep.join(items)
join(sep, items) ==
    LET joined[n \in 0..Len(items)] ==
            IF n = 0 THEN <<>>
            ELSE IF n = 1 THEN items[1]
            ELSE joined[n - 1] \o sep \o items[n]
    IN  joined[Len(items)]

\* the row process_files_v2 appends for a name
ResultRow(client, m) ==
    [cliente |-> client,
     encontrado |-> IF m.found THEN "Sim" ELSE "Nao",
     confianca |-> m.confidence,
     tipo_match |-> m.match_type,
     valores_encontrados |->
         join(<<",", " ">>, dict_get(m.extracted_data, "values", <<>>)),
     cnpjs_encontrados |->
         join(<<",", " ">>, dict_get(m.extracted_data, "cnpjs", <<>>)),
     contexto |-> IF Len(m.context) > 150
                  THEN SubSeq(m.context, 1, 150) \o <<".", ".", ".">>
                  ELSE m.context]

(***************************************************************************)
(* CacheManager                                                            *)
(***************************************************************************)
NoContent == [none |-> TRUE]

get_cached_content(c, file_hash) == c[file_hash]

cache_content(c, file_hash, content) == [c EXCEPT ![file_hash] = content]

VARIABLES
    \* the fields of crawler_v2
    threshold, results, processing, cancelled, progress, status_message,
    last_output_file, last_output_filename, stats, cache,
    \* the worker threads: position and locals of process_files_v2
    pc, excel, pdf, thr, clients, pdf_content, text, page, idx, wresults,
    found_tmp, err, ret,
    \* the POST /cancel handler thread, and the requests served so far
    cpc, cancels,
    \* files written to the temporary directory
    files,
    \* a call of a pure function on its own: the arguments, and what it
    \* returned
    call, returned,
    \* history: a POST /process_v2 arrived while a worker was executing; the
    \* names a running worker had finished when a cancel was issued; the times
    \* the first page of a document was extracted
    overlapped, cancelAt, extractions

shared == <<threshold, results, processing, cancelled, progress,
            status_message, last_output_file, last_output_filename,
            stats, cache>>
locals == <<excel, pdf, thr, clients, pdf_content, text, page, idx,
            wresults, found_tmp, err, ret>>
history == <<overlapped, cancelAt, extractions>>
calls == <<call, returned>>
vars == <<shared, pc, locals, cpc, cancels, files, history, calls>>

NoCall == [fn |-> "none"]
NoResult == [none |-> TRUE]

\* a worker thread exists and has not returned from process_files_v2
Executing(w) == pc[w] \notin {"idle", "done"}

(***************************************************************************)
(* CrawlerPDFV2.__init__, and no thread yet.                               *)
(***************************************************************************)
Constructed ==
    /\ threshold = 80
    /\ results = <<>>
    /\ processing = FALSE
    /\ cancelled = FALSE
    /\ progress = 0
    /\ status_message = MsgReady
    /\ last_output_file = 0
    /\ last_output_filename = 0
    /\ stats = [processing_start |-> 0, total_clients |-> 0, found_clients |-> 0]
    /\ cache = [h \in Hashes |-> NoContent]
    /\ pc = [w \in Workers |-> "idle"]
    /\ excel = [w \in Workers |-> <<>>]
    /\ pdf = [w \in Workers |-> "h1"]
    /\ thr = [w \in Workers |-> 80]
    /\ clients = [w \in Workers |-> <<>>]
    /\ pdf_content = [w \in Workers |-> NoContent]
    /\ text = [w \in Workers |-> <<>>]
    /\ page = [w \in Workers |-> 0]
    /\ idx = [w \in Workers |-> 0]
    /\ wresults = [w \in Workers |-> <<>>]
    /\ found_tmp = [w \in Workers |-> 0]
    /\ err = [w \in Workers |-> "none"]
    /\ ret = [w \in Workers |-> "none"]
    /\ cpc = "idle"
    /\ cancels = 0
    /\ files = {}
    /\ overlapped = FALSE
    /\ cancelAt = [w \in Workers |-> -1]
    /\ extractions = [h \in Hashes |-> 0]

Init ==
    /\ Constructed
    /\ call = NoCall
    /\ returned = NoResult


Goto(w, label) == pc' = [pc EXCEPT ![w] = label]

\* the 'except Exception' handler of process_files_v2 is entered with a cause
Raise(w, cause) ==
    /\ err' = [err EXCEPT ![w] = cause]
    /\ Goto(w, "L383")

Return(w, how) ==
    /\ ret' = [ret EXCEPT ![w] = how]
    /\ Goto(w, "done")

\* positions of process_files_v2 between 'self.processing = True' and the
\* end of the per-name loop
RunningPcs ==
    {"L265", "L269", "L270", "L278", "L281", "L282", "L221", "L223",
     "L233", "L234", "L238", "L242", "L285", "L291", "L296", "L299", "L300",
     "L302", "L305", "L319"}

(***************************************************************************)
(* POST /process_v2: the route saves the uploads and starts a daemon       *)
(* thread on crawler_v2.process_files_v2; it reads no field of crawler_v2. *)
(***************************************************************************)
process_files_v2_route(w, r) ==
    /\ pc[w] = "idle"
    /\ \A v \in Workers : v < w => pc[v] # "idle"
    /\ excel' = [excel EXCEPT ![w] = r.excel]
    /\ pdf' = [pdf EXCEPT ![w] = r.pdf]
    /\ thr' = [thr EXCEPT ![w] = r.threshold]
    /\ Goto(w, "L191")
    /\ overlapped' = (overlapped \/ \E v \in Workers : Executing(v))
    /\ UNCHANGED <<calls, shared, clients, pdf_content, text, page, idx, wresults,
                   found_tmp, err, ret, cpc, cancels, files, cancelAt, extractions>>

(***************************************************************************)
(* CrawlerPDFV2.reset_processing, called first by process_files_v2         *)
(***************************************************************************)
reset_cancelled(w) ==
    /\ pc[w] = "L191"
    /\ cancelled' = FALSE
    /\ Goto(w, "L192")
    /\ UNCHANGED <<calls, threshold, results, processing, progress, status_message,
                   last_output_file, last_output_filename, stats, cache,
                   locals, cpc, cancels, files, history>>

reset_processing_flag(w) ==
    /\ pc[w] = "L192"
    /\ processing' = FALSE
    /\ Goto(w, "L193")
    /\ UNCHANGED <<calls, threshold, results, cancelled, progress, status_message,
                   last_output_file, last_output_filename, stats, cache,
                   locals, cpc, cancels, files, history>>

reset_progress(w) ==
    /\ pc[w] = "L193"
    /\ progress' = 0
    /\ Goto(w, "L194")
    /\ UNCHANGED <<calls, threshold, results, processing, cancelled, status_message,
                   last_output_file, last_output_filename, stats, cache,
                   locals, cpc, cancels, files, history>>

reset_results(w) ==
    /\ pc[w] = "L194"
    /\ results' = <<>>
    /\ Goto(w, "L195")
    /\ UNCHANGED <<calls, threshold, processing, cancelled, progress, status_message,
                   last_output_file, last_output_filename, stats, cache,
                   locals, cpc, cancels, files, history>>

reset_status(w) ==
    /\ pc[w] = "L195"
    /\ status_message' = MsgReady
    /\ Goto(w, "L264")
    /\ UNCHANGED <<calls, threshold, results, processing, cancelled, progress,
                   last_output_file, last_output_filename, stats, cache,
                   locals, cpc, cancels, files, history>>

(***************************************************************************)
(* CrawlerPDFV2.process_files_v2                                           *)
(***************************************************************************)
SetProgress(w, from, value, to) ==
    /\ pc[w] = from
    /\ progress' = value
    /\ Goto(w, to)
    /\ UNCHANGED <<calls, threshold, results, processing, cancelled, status_message,
                   last_output_file, last_output_filename, stats, cache,
                   locals, cpc, cancels, files, history>>

SetStatus(w, from, msg, to) ==
    /\ pc[w] = from
    /\ status_message' = msg
    /\ Goto(w, to)
    /\ UNCHANGED <<calls, threshold, results, processing, cancelled, progress,
                   last_output_file, last_output_filename, stats, cache,
                   locals, cpc, cancels, files, history>>

set_processing(w) ==
    /\ pc[w] = "L264"
    /\ processing' = TRUE
    /\ Goto(w, "L265")
    /\ UNCHANGED <<calls, threshold, results, cancelled, progress, status_message,
                   last_output_file, last_output_filename, stats, cache,
                   locals, cpc, cancels, files, history>>

\* self.threshold = threshold (a field nothing reads), and time.time(): the
\* start stamp of run w is w
stamp_start(w) ==
    /\ pc[w] = "L265"
    /\ threshold' = thr[w]
    /\ stats' = [stats EXCEPT !.processing_start = w]
    /\ Goto(w, "L269")
    /\ UNCHANGED <<calls, results, processing, cancelled, progress,
                   status_message, last_output_file, last_output_filename,
                   cache, locals, cpc, cancels, files, history>>

progress_excel(w) == SetProgress(w, "L269", 5, "L270")

\* the status message, read_excel_clients, and the test 'if not clients'
read_excel_clients(w) ==
    /\ pc[w] = "L270"
    /\ status_message' = Msg("Lendo arquivo Excel", 0, 0)
    /\ IF excel[w] = Unreadable
       THEN /\ Raise(w, "Erro ao ler Excel")
            /\ UNCHANGED clients
       ELSE /\ clients' = [clients EXCEPT ![w] = excel[w]]
            /\ Goto(w, IF excel[w] = <<>> THEN "L274" ELSE "L278")
            /\ UNCHANGED err
    /\ UNCHANGED <<calls, threshold, results, processing, cancelled, progress,
                   last_output_file, last_output_filename, stats, cache,
                   excel, pdf, thr, pdf_content, text, page, idx,
                   wresults, found_tmp, ret, cpc, cancels, files, history>>


status_no_clients(w) ==
    SetStatus(w, "L274", Msg("Nenhum cliente encontrado", 0, 0), "L275")

return_no_clients(w) ==
    /\ pc[w] = "L275"
    /\ processing' = FALSE
    /\ Return(w, "no clients")
    /\ UNCHANGED <<calls, threshold, results, cancelled, progress, status_message,
                   last_output_file, last_output_filename, stats, cache,
                   excel, pdf, thr, clients, pdf_content, text, page, idx,
                   wresults, found_tmp, err, cpc, cancels, files, history>>

set_total_clients(w) ==
    /\ pc[w] = "L278"
    /\ stats' = [stats EXCEPT !.total_clients = Len(clients[w])]
    /\ Goto(w, "L281")
    /\ UNCHANGED <<calls, threshold, results, processing, cancelled, progress,
                   status_message, last_output_file, last_output_filename,
                   cache, locals, cpc, cancels, files, history>>

progress_pdf(w) == SetProgress(w, "L281", 10, "L282")

status_pdf(w) == SetStatus(w, "L282", Msg("Processando PDF", 0, 0), "L221")

(***************************************************************************)
(* CrawlerPDFV2.read_pdf_optimized, called at line 283                     *)
(***************************************************************************)
\* the dict built at lines 244-249; obj is the identity of the dict object,
\* a fresh one in every call
ContentOf(w, txt, total_pages) ==
    [text |-> txt,
     analysis |-> detect_document_type(txt),
     total_pages |-> total_pages,
     total_chars |-> Len(txt),
     obj |-> w]

\* file_hash = get_file_hash(pdf_path); cached = get_cached_content(file_hash);
\* on a miss open(pdf_path), PdfReader(file), total_pages = len(reader.pages)
lookup_cache(w) ==
    /\ pc[w] = "L221"
    /\ LET cached == get_cached_content(cache, pdf[w])
       IN  IF cached # NoContent
           THEN /\ pdf_content' = [pdf_content EXCEPT ![w] = cached]
                /\ Goto(w, "L223")
                /\ UNCHANGED <<text, page>>
           ELSE /\ text' = [text EXCEPT ![w] = <<>>]
                /\ page' = [page EXCEPT ![w] = 0]
                /\ Goto(w, IF Len(PagesOf(pdf[w])) = 0 THEN "L242" ELSE "L233")
                /\ UNCHANGED pdf_content
    /\ UNCHANGED <<calls, shared, excel, pdf, thr, clients, idx,
                   wresults, found_tmp, err, ret, cpc, cancels, files, history>>

status_cache_hit(w) ==
    SetStatus(w, "L223", Msg("Conteudo recuperado do cache", 0, 0), "L285")

progress_page(w) ==
    SetProgress(w, "L233", (page[w] * 30) \div Len(PagesOf(pdf[w])), "L234")

\* the status message, then text += page.extract_text() + "\n\n"
extract_page(w) ==
    /\ pc[w] = "L234"
    /\ status_message' = Msg("Processando pagina", page[w] + 1, Len(PagesOf(pdf[w])))
    /\ IF PagesOf(pdf[w])[page[w] + 1] = Unreadable
       THEN /\ Raise(w, "Erro ao processar PDF")
            /\ UNCHANGED <<text, extractions>>
       ELSE /\ text' = [text EXCEPT
                          ![w] = @ \o PagesOf(pdf[w])[page[w] + 1] \o PageSep]
            /\ extractions' = [extractions EXCEPT
                                 ![pdf[w]] = IF page[w] = 0 THEN @ + 1 ELSE @]
            /\ Goto(w, "L238")
            /\ UNCHANGED err
    /\ UNCHANGED <<calls, threshold, results, processing, cancelled, progress,
                   last_output_file, last_output_filename, stats, cache,
                   excel, pdf, thr, clients, pdf_content, page, idx,
                   wresults, found_tmp, ret, cpc, cancels, files, overlapped,
                   cancelAt>>

\* 'if self.cancelled: return None', else the next page or the end of the loop
check_cancel_page(w) ==
    /\ pc[w] = "L238"
    /\ IF cancelled
       THEN /\ pdf_content' = [pdf_content EXCEPT ![w] = NoContent]
            /\ text' = [text EXCEPT ![w] = <<>>]
            /\ page' = [page EXCEPT ![w] = 0]
            /\ Goto(w, "L285")
       ELSE /\ IF page[w] + 1 < Len(PagesOf(pdf[w]))
               THEN /\ page' = [page EXCEPT ![w] = @ + 1]
                    /\ Goto(w, "L233")
               ELSE /\ Goto(w, "L242")
                    /\ UNCHANGED page
            /\ UNCHANGED <<pdf_content, text>>
    /\ UNCHANGED <<calls, shared, excel, pdf, thr, clients, idx, wresults,
                   found_tmp, err, ret, cpc, cancels, files, history>>

\* detect_document_type, the result dict, cache_content, return result
analyse_and_cache(w) ==
    /\ pc[w] = "L242"
    /\ LET result == ContentOf(w, text[w], Len(PagesOf(pdf[w])))
       IN  /\ cache' = cache_content(cache, pdf[w], result)
           /\ pdf_content' = [pdf_content EXCEPT ![w] = result]
    /\ text' = [text EXCEPT ![w] = <<>>]
    /\ page' = [page EXCEPT ![w] = 0]
    /\ Goto(w, "L285")
    /\ UNCHANGED <<calls, threshold, results, processing, cancelled, progress,
                   status_message, last_output_file, last_output_filename,
                   stats, excel, pdf, thr, clients, idx,
                   wresults, found_tmp, err, ret, cpc, cancels, files, history>>

(***************************************************************************)
(* process_files_v2, from line 285                                         *)
(***************************************************************************)
\* 'if self.cancelled or not pdf_content: return None'
check_cancel_pdf(w) ==
    /\ pc[w] = "L285"
    /\ IF cancelled \/ pdf_content[w] = NoContent
       THEN Return(w, "cancelled")
       ELSE /\ Goto(w, "L291")
            /\ UNCHANGED ret
    /\ UNCHANGED <<calls, shared, excel, pdf, thr, clients, pdf_content, text, page,
                   idx, wresults, found_tmp, err, cpc, cancels, files, history>>

\* the document type message, then 'results = []' and the loop starts
status_doc_type(w) ==
    /\ pc[w] = "L291"
    /\ status_message' = Msg("Documento", pdf_content[w].analysis.confidence, 0)
    /\ wresults' = [wresults EXCEPT ![w] = <<>>]
    /\ idx' = [idx EXCEPT ![w] = 0]
    /\ Goto(w, "L296")
    /\ UNCHANGED <<calls, threshold, results, processing, cancelled, progress,
                   last_output_file, last_output_filename, stats, cache,
                   excel, pdf, thr, clients, pdf_content, text, page,
                   found_tmp, err, ret, cpc, cancels, files, history>>

\* the head of the per-name loop: the next name, and 'if self.cancelled: break'
check_cancel_name(w) ==
    /\ pc[w] = "L296"
    /\ Goto(w, IF idx[w] < Len(clients[w]) /\ ~cancelled THEN "L299" ELSE "L319")
    /\ UNCHANGED <<calls, shared, locals, cpc, cancels, files, history>>

progress_name(w) ==
    SetProgress(w, "L299", 30 + (idx[w] * 60) \div Len(clients[w]), "L300")

status_name(w) ==
    SetStatus(w, "L300", Msg("Buscando", idx[w] + 1, Len(clients[w])), "L302")

\* advanced_search; a found name reads stats['found_clients'] for the '+= 1',
\* a name not found is appended at once
search_name(w) ==
    /\ pc[w] = "L302"
    /\ \E m \in {advanced_search(clients[w][idx[w] + 1], pdf_content[w].text, thr[w])} :
          IF m.found
          THEN /\ found_tmp' = [found_tmp EXCEPT ![w] = stats.found_clients]
               /\ Goto(w, "L305")
               /\ UNCHANGED <<wresults, idx>>
          ELSE /\ wresults' = [wresults EXCEPT
                                 ![w] = Append(@, ResultRow(clients[w][idx[w] + 1], m))]
               /\ idx' = [idx EXCEPT ![w] = @ + 1]
               /\ Goto(w, "L296")
               /\ UNCHANGED found_tmp
    /\ UNCHANGED <<calls, shared, excel, pdf, thr, clients, pdf_content, text, page,
                   err, ret, cpc, cancels, files, history>>

\* the store of "self.stats['found_clients'] += 1", then results.append
count_found(w) ==
    /\ pc[w] = "L305"
    /\ stats' = [stats EXCEPT !.found_clients = found_tmp[w] + 1]
    /\ \E m \in {advanced_search(clients[w][idx[w] + 1], pdf_content[w].text, thr[w])} :
          wresults' = [wresults EXCEPT
                         ![w] = Append(@, ResultRow(clients[w][idx[w] + 1], m))]
    /\ idx' = [idx EXCEPT ![w] = @ + 1]
    /\ Goto(w, "L296")
    /\ UNCHANGED <<calls, threshold, results, processing, cancelled, progress,
                   status_message, last_output_file, last_output_filename,
                   cache, excel, pdf, thr, clients, pdf_content, text, page,
                   found_tmp, err, ret, cpc, cancels, files, history>>

\* 'if self.cancelled: return None' after the loop
check_cancel_end(w) ==
    /\ pc[w] = "L319"
    /\ IF cancelled
       THEN Return(w, "cancelled")
       ELSE /\ Goto(w, "L323")
            /\ UNCHANGED ret
    /\ UNCHANGED <<calls, shared, excel, pdf, thr, clients, pdf_content, text, page,
                   idx, wresults, found_tmp, err, cpc, cancels, files, history>>

progress_save(w) == SetProgress(w, "L323", 95, "L324")

\* the status message; the success rate of the statistics sheet divides by
\* len(results); then pd.ExcelWriter writes the workbook of run w, or raises
\* (disk, permissions)
write_output(w) ==
    /\ pc[w] = "L324"
    /\ status_message' = Msg("Salvando resultados", 0, 0)
    /\ IF Len(wresults[w]) = 0
       THEN /\ Raise(w, "division by zero")
            /\ UNCHANGED files
       ELSE \/ /\ files' = files \cup {w}
               /\ Goto(w, "L363")
               /\ UNCHANGED err
            \/ /\ Raise(w, "Erro ao gravar")
               /\ UNCHANGED files
    /\ UNCHANGED <<calls, threshold, results, processing, cancelled, progress,
                   last_output_file, last_output_filename, stats, cache,
                   excel, pdf, thr, clients, pdf_content, text, page,
                   idx, wresults, found_tmp, ret, cpc, cancels, history>>

publish_results(w) ==
    /\ pc[w] = "L363"
    /\ results' = wresults[w]
    /\ Goto(w, "L364")
    /\ UNCHANGED <<calls, threshold, processing, cancelled, progress, status_message,
                   last_output_file, last_output_filename, stats, cache,
                   locals, cpc, cancels, files, history>>

clear_processing(w) ==
    /\ pc[w] = "L364"
    /\ processing' = FALSE
    /\ Goto(w, "L365")
    /\ UNCHANGED <<calls, threshold, results, cancelled, progress, status_message,
                   last_output_file, last_output_filename, stats, cache,
                   locals, cpc, cancels, files, history>>

\* the output path and file name carry the time stamp of the run: run w
set_output_file(w) ==
    /\ pc[w] = "L365"
    /\ last_output_file' = w
    /\ Goto(w, "L366")
    /\ UNCHANGED <<calls, threshold, results, processing, cancelled, progress,
                   status_message, last_output_filename, stats, cache,
                   locals, cpc, cancels, files, history>>

set_output_filename(w) ==
    /\ pc[w] = "L366"
    /\ last_output_filename' = w
    /\ Goto(w, "L369")
    /\ UNCHANGED <<calls, threshold, results, processing, cancelled, progress,
                   status_message, last_output_file, stats, cache,
                   locals, cpc, cancels, files, history>>

status_done(w) ==
    SetStatus(w, "L369",
              Msg("Concluido", stats.found_clients, Len(wresults[w])), "L370")

progress_done(w) ==
    /\ pc[w] = "L370"
    /\ progress' = 100
    /\ Return(w, "completed")
    /\ UNCHANGED <<calls, threshold, results, processing, cancelled, status_message,
                   last_output_file, last_output_filename, stats, cache,
                   excel, pdf, thr, clients, pdf_content, text, page, idx,
                   wresults, found_tmp, err, cpc, cancels, files, history>>

\* except Exception as e
status_error(w) == SetStatus(w, "L383", Msg(err[w], 0, 0), "L384")

return_error(w) ==
    /\ pc[w] = "L384"
    /\ processing' = FALSE
    /\ Return(w, "failed")
    /\ UNCHANGED <<calls, threshold, results, cancelled, progress, status_message,
                   last_output_file, last_output_filename, stats, cache,
                   excel, pdf, thr, clients, pdf_content, text, page, idx,
                   wresults, found_tmp, err, cpc, cancels, files, history>>

(***************************************************************************)
(* POST /cancel: the handler thread runs CrawlerPDFV2.cancel_processing    *)
(***************************************************************************)
\* the route is entered and cancel_processing sets self.cancelled = True.
\* cancelAt notes, for a worker that has set processing and has names left,
\* how many names it has finished.
cancel_route ==
    /\ cpc = "idle"
    /\ cancels < MaxCancels
    /\ cancels' = cancels + 1
    /\ cancelled' = TRUE
    /\ cpc' = "L200"
    /\ cancelAt' = [w \in Workers |->
                      IF /\ cancelAt[w] = -1
                         /\ pc[w] \in RunningPcs
                         /\ excel[w] # Unreadable
                         /\ Len(wresults[w]) < Len(excel[w])
                      THEN Len(wresults[w])
                      ELSE cancelAt[w]]
    /\ UNCHANGED <<calls, threshold, results, processing, progress, status_message,
                   last_output_file, last_output_filename, stats, cache,
                   pc, locals, files, overlapped, extractions>>

cancel_set_status ==
    /\ cpc = "L200"
    /\ status_message' = MsgCancelled
    /\ cpc' = "L201"
    /\ UNCHANGED <<calls, threshold, results, processing, cancelled, progress,
                   last_output_file, last_output_filename, stats, cache,
                   pc, locals, cancels, files, history>>

cancel_clear_processing ==
    /\ cpc = "L201"
    /\ processing' = FALSE
    /\ cpc' = "idle"
    /\ UNCHANGED <<calls, threshold, results, cancelled, progress, status_message,
                   last_output_file, last_output_filename, stats, cache,
                   pc, locals, cancels, files, history>>

(***************************************************************************)
(* GET /progress_v2: the handler writes no field; this is the response it  *)
(* builds from the fields of crawler_v2 when it runs between two steps of  *)
(* the other threads.  The processing time of the finished branch is       *)
(* computed from stats['processing_start'], which stands for it here.      *)
(***************************************************************************)
get_progress_v2 ==
    IF ~processing /\ results # <<>>
    THEN [processing |-> FALSE,
          progress |-> 100,
          status |-> status_message,
          results |-> [total |-> Len(results),
                       found |-> stats.found_clients,
                       file |-> last_output_filename,
                       processing_start |-> stats.processing_start]]
    ELSE [processing |-> processing,
          progress |-> progress,
          status |-> status_message,
          stats |-> stats]

Next ==
    \/ \E w \in Workers, r \in Requests : process_files_v2_route(w, r)
    \/ \E w \in Workers :
          \/ reset_cancelled(w) \/ reset_processing_flag(w) \/ reset_progress(w)
          \/ reset_results(w) \/ reset_status(w)
          \/ set_processing(w) \/ stamp_start(w)
          \/ progress_excel(w) \/ read_excel_clients(w)
          \/ status_no_clients(w) \/ return_no_clients(w)
          \/ set_total_clients(w) \/ progress_pdf(w) \/ status_pdf(w)
          \/ lookup_cache(w) \/ status_cache_hit(w)
          \/ progress_page(w) \/ extract_page(w)
          \/ check_cancel_page(w) \/ analyse_and_cache(w)
          \/ check_cancel_pdf(w) \/ status_doc_type(w)
          \/ check_cancel_name(w) \/ progress_name(w) \/ status_name(w)
          \/ search_name(w) \/ count_found(w) \/ check_cancel_end(w)
          \/ progress_save(w) \/ write_output(w)
          \/ publish_results(w) \/ clear_processing(w) \/ set_output_file(w)
          \/ set_output_filename(w) \/ status_done(w) \/ progress_done(w)
          \/ status_error(w) \/ return_error(w)
    \/ cancel_route
    \/ cancel_set_status
    \/ cancel_clear_processing

Spec == Init /\ [][Next]_vars

(***************************************************************************)
(* AdvancedMatcher.advanced_search on its own: a name, a text and a        *)
(* tolerance are drawn, and the function is called once.                   *)
(***************************************************************************)
MaxThreshold == 100

\* names of the uploaded list (read_excel_clients strips them and drops the
\* empty ones)
ClientNames ==
    {<<"A", "c", "m", "e", " ", "L", "t", "d", "a">>,
     <<"A", "c", "m", "e", " ", "S", "t", "e", "e", "l", " ", "L", "t",
         "d", "a">>,
     <<"s", "o", "l", " ", "m", "a", "r", " ", "r", "i", "o", " ", "l",
         "u", "z", " ", "p", "a", "z">>,
     <<"a", "c", "m", "e", " ", "s", "a">>,
     <<"a", "c", "m", "e", " ", "c", "o", "r", "p">>,
     <<"E", "m", "p", "r", "e", "s", "a", " ", "X", "P", "T", "O">>,
     <<"A", "c", "n", "e", " ", "C", "o", "r", "p">>}
\* texts of documents
Documents ==
    {<<"A", "C", "M", "E", " ", "L", "T", "D", "A", ",", " ", "s", "t",
         "e", "e", "l", " ", "b", "y", " ", "a", "c", "m", "e", " ", "c",
         "o">>,
     <<"l", "u", "z", " ", "d", "o", " ", "r", "i", "o", ",", " ", "m",
         "a", "r", " ", "e", " ", "p", "a", "z">>,
     <<"A", "c", "n", "e", " ", "S", "A", ",", " ", "A", "c", "n", "e",
         " ", "C", "o", "r", "p", " ", "R", "$", " ", "9", ",", "5", "0">>}

MatcherCalls ==
    [fn : {"advanced_search"}, client_name : ClientNames, text : Documents,
     threshold : 0..MaxThreshold]

MatcherInit ==
    /\ Constructed
    /\ call \in MatcherCalls
    /\ returned = NoResult

advanced_search_call ==
    /\ call.fn = "advanced_search"
    /\ returned = NoResult
    /\ returned' = advanced_search(call.client_name, call.text, call.threshold)
    /\ UNCHANGED <<shared, pc, locals, cpc, cancels, files, history, call>>

MatcherNext == advanced_search_call

MatcherSpec == MatcherInit /\ [][MatcherNext]_vars

(***************************************************************************)
(* QGCAnalyzer.detect_document_type on its own: the text of a document is  *)
(* put together from a few fragments, and the function is called once.     *)
(***************************************************************************)
MaxFragments == 3

Fragments ==
    {<<"Q", "G", "C">>,
     <<"Q", "u", "a", "d", "r", "o", " ", "G", "e", "r", "a", "l", " ",
         "d", "e", " ", "C", "r", "e", "d", "o", "r", "e", "s", " ", "(",
         "Q", "G", "C", ")">>,
     <<"a", "d", "m", "i", "n", "i", "s", "t", "r", "a", "d", "o", "r",
         " ", "j", "u", "d", "i", "c", "i", "a", "l">>,
     <<"C", "r", "e", "d", "o", "r", "e", "s", " ", "T", "r", "a", "b",
         "a", "l", "h", "i", "s", "t", "a", "s">>,
     <<"R", "$", " ", "1", ".", "0", "0", "0", ",", "0", "0">>,
     <<"r", "$", " ", "5">>,
     <<"1", "2", ".", "3", "4", "5", ".", "6", "7", "8", "/", "0", "0",
         "0", "1", "-", "9", "0">>,
     <<"l", "i", "s", "t", "a">>}

\* the texts made of MaxFragments fragments at most, a space between two
AnalyzerTexts ==
    LET made[n \in 0..MaxFragments] ==
            IF n = 0 THEN {<<>>}
            ELSE {(IF t = <<>> THEN <<>> ELSE t \o <<" ">>) \o f :
                     t \in made[n - 1], f \in Fragments}
    IN  UNION {made[n] : n \in 0..MaxFragments}

AnalyzerCalls == [fn : {"detect_document_type"}, text : AnalyzerTexts]

AnalyzerInit ==
    /\ Constructed
    /\ call \in AnalyzerCalls
    /\ returned = NoResult

detect_document_type_call ==
    /\ call.fn = "detect_document_type"
    /\ returned = NoResult
    /\ returned' = detect_document_type(call.text)
    /\ UNCHANGED <<shared, pc, locals, cpc, cancels, files, history, call>>

AnalyzerNext == detect_document_type_call

AnalyzerSpec == AnalyzerInit /\ [][AnalyzerNext]_vars

(***************************************************************************)
(* The claims                                                              *)
(***************************************************************************)
\* every page of the document can be extracted
Readable(h) == \A k \in 1..Len(PagesOf(h)) : PagesOf(h)[k] # Unreadable

\* C1: at most one worker is between 'self.processing = True' and the end of
\* its per-name loop at any time.
C1_OneWorkerAtATime ==
    Cardinality({w \in Workers : pc[w] \in RunningPcs}) <= 1

\* C2: while processing stays set, no step lowers progress (stated for runs
\* that never overlap another run, and with no cancel request).
C2_ProgressMonotone ==
    [][(~overlapped' /\ cancels' = 0 /\ processing /\ processing')
          => progress' >= progress]_vars

\* C3: at every per-name checkpoint of a run, when runs never overlap and no
\* cancel is requested, found_clients <= the number of results of the run
\* <= total_clients.
C3_CountsOrdered ==
    \A w \in Workers :
        (pc[w] = "L296" /\ ~overlapped /\ cancels = 0)
            => /\ stats.found_clients <= Len(wresults[w])
               /\ Len(wresults[w]) <= stats.total_clients

\* C4: right after reset_processing of a run that overlaps no other run and
\* with no cancel request, the job is cleared: no results, counters 0,
\* progress 0, flag clear, no output file of an earlier run.
C4_ResetClears ==
    \A w \in Workers :
        (pc[w] = "L264" /\ ~overlapped /\ cancels = 0)
            => /\ results = <<>>
               /\ stats.found_clients = 0
               /\ stats.total_clients = 0
               /\ progress = 0
               /\ ~cancelled
               /\ last_output_file = 0
               /\ last_output_filename = 0

\* C5: a run that was cancelled while it was running with names left never
\* writes its output and never completes.
C5_CancelTakesEffect ==
    \A w \in Workers :
        cancelAt[w] >= 0 => (ret[w] # "completed" /\ w \notin files)

\* C6: a run cancelled after k of its n names (k < n), overlapping no other
\* run and not failing, ends cancelled with k or k+1 results, and not n.
C6_CancelledResultCount ==
    \A w \in Workers :
        (cancelAt[w] >= 0 /\ pc[w] = "done" /\ ~overlapped /\ ret[w] # "failed")
            => /\ ret[w] = "cancelled"
               /\ Len(wresults[w]) \in {cancelAt[w], cancelAt[w] + 1}
               /\ Len(wresults[w]) # Len(excel[w])

\* C7: when a run that has processed all its names returns from its last
\* statement and no cancel was requested, the job is completed: progress 100,
\* processing clear, the output of the run referenced, one result per name of
\* the run in the order of the names, and as many results as total_clients.
C7_CompletedRun ==
    [][\A w \in Workers :
          (/\ pc[w] = "L370" /\ pc'[w] = "done"
           /\ Len(wresults[w]) = Len(clients[w])
           /\ cancels' = 0)
              => /\ progress' = 100
                 /\ ~processing'
                 /\ last_output_file' = w
                 /\ last_output_filename' = w
                 /\ Len(results') = Len(clients[w])
                 /\ \A k \in 1..Len(results') : results'[k].cliente = clients[w][k]
                 /\ Len(results') = stats'.total_clients]_vars

\* C8: when a run returns after a fatal error (no name, or an exception) and
\* no cancel was requested, the job is failed: processing clear, the status
\* message is the cause, no results are visible and the output file
\* referenced is not one of this run.
C8_FailedRun ==
    [][\A w \in Workers :
          (pc[w] \in {"L275", "L384"} /\ pc'[w] = "done" /\ cancels' = 0)
              => /\ ~processing'
                 /\ status_message' =
                        (IF pc[w] = "L275"
                         THEN Msg("Nenhum cliente encontrado", 0, 0)
                         ELSE Msg(err[w], 0, 0))
                 /\ results' = <<>>
                 /\ last_output_file' # w]_vars

\* C9: over runs that never overlap, the text of a readable document is
\* extracted at most once per content hash.
C9_ExtractOnce ==
    ~overlapped => \A h \in Hashes : Readable(h) => extractions[h] <= 1

\* C10: an entry present in the cache is never replaced, changed or removed.
C10_WriteOnce ==
    [][\A h \in Hashes : cache[h] # NoContent => cache'[h] = cache[h]]_vars

\* C11: once no worker is executing and a run has completed, the observable
\* state of the job (processing flag, cancelled flag, status message,
\* progress) stays as it is until the next start; a cancel request that
\* arrives then changes nothing.
C11_TerminalStateStays ==
    [][(/\ \A w \in Workers : ~Executing(w)
        /\ \E w \in Workers : ret[w] = "completed"
        /\ ~overlapped
        /\ cpc = "idle"
        /\ \A w \in Workers : pc'[w] = pc[w])
          => UNCHANGED <<processing, cancelled, status_message, progress>>]_vars

\* two characters are the same letter, whatever their case
SameLetter(c, d) ==
    c = d \/ \E k \in DOMAIN UpperCase : {c, d} = {UpperCase[k], LowerCase[k]}

\* the text contains the name verbatim, case-insensitively
ContainsIgnoringCase(doc, name) ==
    \E i \in 0..(Len(doc) - Len(name)) :
        \A k \in 1..Len(name) : SameLetter(doc[i + k], name[k])

\* advanced_search has returned
Searched == call.fn = "advanced_search" /\ returned # NoResult

\* detect_document_type has returned
Analysed == call.fn = "detect_document_type" /\ returned # NoResult

\* C12: if the text contains the name verbatim (case-insensitively), the
\* result has found = true and confidence >= 95, whatever the threshold.
C12_VerbatimFound ==
    (Searched /\ ContainsIgnoringCase(call.text, call.client_name))
        => returned.found /\ returned.confidence >= 95

\* C12 happens: a name found in a text that holds it in another case, with
\* the threshold 100
C12_Witness ==
    /\ Searched
    /\ ContainsIgnoringCase(call.text, call.client_name)
    /\ ~Contains(call.text, call.client_name)
    /\ call.threshold = 100
    /\ returned.found

\* C13, as stated: a result with found = false has a confidence strictly
\* below the configured threshold, an empty context and no extracted data.
C13_NotFoundBelowThreshold ==
    (Searched /\ ~returned.found)
        => /\ returned.confidence < call.threshold
           /\ returned.context = <<>>
           /\ returned.extracted_data = {}

\* C13, amended: a result with found = false has the partial ratio of the
\* lowercased name and text as confidence, strictly below the larger of the
\* threshold and 88, an empty context and no extracted data.
C13_NotFoundBelowGate ==
    (Searched /\ ~returned.found)
        => /\ returned.confidence =
                  partial_ratio(lower(call.client_name), lower(call.text))
           /\ returned.confidence < call.threshold \/ returned.confidence < 88
           /\ returned.context = <<>>
           /\ returned.extracted_data = {}

\* C13 happens: a name not found at the threshold 80, with a confidence
\* between the threshold and 88
C13_Witness ==
    /\ Searched
    /\ ~returned.found
    /\ call.threshold = 80
    /\ returned.confidence >= call.threshold
    /\ returned.confidence < 88

\* the number of distinct indicator phrases in the lowercased text
IndicatorCount(doc) ==
    Cardinality({indicator \in qgc_indicators : ContainsIgnoringCase(doc, indicator)})

\* C14: with c indicator phrases in the text, the type is 'qgc' with
\* confidence min(90, c * 30) if c >= 2, and 'unknown' with confidence 0
\* otherwise; the confidence is within 0..100.
C14_Classification ==
    Analysed =>
        /\ IndicatorCount(call.text) >= 2 =>
              /\ returned.type = "qgc"
              /\ returned.confidence =
                    (IF IndicatorCount(call.text) * 30 < 90
                     THEN IndicatorCount(call.text) * 30 ELSE 90)
        /\ IndicatorCount(call.text) < 2 =>
              /\ returned.type = "unknown"
              /\ returned.confidence = 0
        /\ returned.confidence \in 0..100

\* C14 happens: a text with four indicator phrases, where c * 30 exceeds 90
C14_Witness ==
    /\ Analysed
    /\ IndicatorCount(call.text) = 4
    /\ returned.type = "qgc"
    /\ returned.confidence = 90

\* C15: the counts reported are the numbers of matches of the value pattern
\* and of the CNPJ pattern in the full text, whatever the type decided.
C15_CountsWhateverTheType ==
    Analysed =>
        /\ returned.values_found = Len(findall_values(call.text))
        /\ returned.cnpjs_found = Len(findall_cnpjs(call.text))

\* the significant words of the name that the lowercased text contains
WordsFound(client_name, doc) ==
    SelectSeq(significant_words(client_name),
              LAMBDA word : ContainsIgnoringCase(doc, word))

\* the second gate: two significant words found at least, and 0.8 of them
WordGateHolds(client_name, doc) ==
    /\ Len(WordsFound(client_name, doc)) >= 2
    /\ 10 * Len(WordsFound(client_name, doc))
           >= 8 * Len(significant_words(client_name))

\* the third gate: the partial ratio reaches the threshold and 88
FuzzyGateHolds(client_name, doc, minimum) ==
    /\ partial_ratio(lower(client_name), lower(doc)) >= minimum
    /\ partial_ratio(lower(client_name), lower(doc)) >= 88

\* C16: the first gate that holds, in the order exact, words, fuzzy, fixes
\* the result (confidence 95, int(ratio * 90), the similarity), and found is
\* true if and only if one of the gates holds.
C16_ThreeGates ==
    Searched =>
        LET exact == ContainsIgnoringCase(call.text, call.client_name)
            words == WordGateHolds(call.client_name, call.text)
            fuzzy == FuzzyGateHolds(call.client_name, call.text, call.threshold)
        IN  /\ returned.found <=> (exact \/ words \/ fuzzy)
            /\ exact => returned.confidence = 95 /\ returned.match_type.tag = "Exata"
            /\ (~exact /\ words) =>
                  /\ returned.match_type.tag = "Palavras"
                  /\ returned.confidence =
                        (Len(WordsFound(call.client_name, call.text)) * 90)
                            \div Len(significant_words(call.client_name))
            /\ (~exact /\ ~words /\ fuzzy) =>
                  /\ returned.match_type.tag = "Fuzzy"
                  /\ returned.confidence =
                        partial_ratio(lower(call.client_name), lower(call.text))

\* C16 happens: a name found by its words alone, four of five, while the
\* fuzzy gate does not hold
C16_Witness ==
    /\ Searched
    /\ returned.found
    /\ returned.match_type = Msg("Palavras", 4, 5)
    /\ returned.confidence = 72
    /\ ~FuzzyGateHolds(call.client_name, call.text, call.threshold)

\* C17: once no thread is executing (every started worker has returned and
\* the cancel handler is not running), the processing flag is clear (stated
\* for runs that never overlap another run).
C17_StoppedMeansNotProcessing ==
    (/\ \A w \in Workers : ~Executing(w)
     /\ cpc = "idle"
     /\ ~overlapped)
        => ~processing

\* the status accessor answers with the finished branch
ReportsFinished == "results" \in DOMAIN get_progress_v2

\* C18: while a started worker has not yet executed its reset, the status
\* accessor does not report a finished run with progress 100 (stated for runs
\* that never overlap another run, and with no cancel request).
C18_NoStaleSnapshot ==
    \A w \in Workers :
        (pc[w] \in {"L191", "L192", "L193", "L194"} /\ ~overlapped /\ cancels = 0)
            => ~(ReportsFinished /\ get_progress_v2.progress = 100)

\* C19: when the status accessor reports a finished run and run w is the one
\* that published the results (runs never overlap, no cancel request, no later
\* run started), the file it reports is the file run w wrote and the status
\* is the completion message of run w.
C19_ConsistentSnapshot ==
    \A w \in Workers :
        (/\ ReportsFinished
         /\ ~overlapped /\ cancels = 0
         /\ \/ pc[w] \in {"L365", "L366", "L369", "L370"}
            \/ pc[w] = "done" /\ ret[w] = "completed"
         /\ \A v \in Workers : v > w => pc[v] = "idle")
            => /\ get_progress_v2.results.file = w
               /\ w \in files
               /\ get_progress_v2.status =
                     Msg("Concluido", get_progress_v2.results.found, Len(wresults[w]))

\* C20: after a cancel request issued while run w was running with names
\* left, once run w has returned cancelled and the cancel handler has
\* returned, the status message is the cancellation message (stated for runs
\* that never overlap another run).
C20_CancelMessageStays ==
    \A w \in Workers :
        (/\ cancelAt[w] >= 0
         /\ pc[w] = "done" /\ ret[w] = "cancelled"
         /\ cpc = "idle"
         /\ ~overlapped
         /\ \A v \in Workers : v > w => pc[v] = "idle")
            => status_message = MsgCancelled

=============================================================================
